---- MODULE Spec2Model ----
(***************************************************************************)
(* AFClientService (src/application/services/js-services/index.ts):       *)
(* the load-state registries viewLoaded / publishViewLoaded, the          *)
(* publishViewInfo cache, and the asynchronous operations that read and   *)
(* change them.  Every await of the TypeScript code is a step boundary:   *)
(* the synchronous stretch between two awaits is one action.              *)
(***************************************************************************)
EXTENDS Integers, Sequences, FiniteSets, TLC

\* ---------------------------------------------------------------- bounds
\* Number of retrieve calls (getPublishView / getPageDoc / getPublishViewMeta)
\* issued in one session.
MaxCalls == 3

\* Number of publish operations (getPublishInfo calls and publish mutations) issued
\* in one session.
MaxInfoOps == 3

\* Keys of the cacheable entities (the template strings `${namespace}_${publishName}`
\* and `${userId}_${workspaceId}_${viewId}` are opaque to the service).
Keys == {"ns1_note"}

\* The keys of a session that retrieves a second entity of each class.
AllKeys == Keys \cup {"ns1_plan"}

\* Rejection values a network fetch can produce.
FetchErrors == {"NetworkError"}

\* ---------------------------------------------------------------- constants
CACHE_FIRST == "CACHE_FIRST"
CACHE_AND_NETWORK == "CACHE_AND_NETWORK"

NoRecord == -1     \* no stored record / no value
OldRecord == 0     \* a record persisted by an earlier session
NoError == "none"

PublishClass == "publishView"
PageClass == "view"
Classes == {PublishClass, PageClass}

RetrieveOps == {"getPublishView", "getPageDoc", "getPublishViewMeta"}

\* View identifiers used with the publish operations.
Views == {"view42", "view7"}

NoView == "none"

\* A response without namespace has namespace 0; namespaces are numbered from 1.
NoNamespace == 0

\* publishViewInfo has no entry for a view.
NoInfo == [namespace |-> NoNamespace, publishName |-> NoView, viewId |-> NoView,
           publishedAt |-> 0]

\* fetchViewInfo has not answered.
NoResponse == [namespace |-> NoNamespace, publish_name |-> NoView, view_id |-> NoView,
               publish_timestamp |-> 0]

\* getTokenParsed() yields no user id; otherwise the id of the signed-in user.
NoUser == "none"
UserIds == {"u1"}

\* Documents handed to registerDocUpdate (context.objectId).
Docs == {"doc1"}

InvalidatingOps == {"publishView", "unpublishView", "updatePublishNamespace",
                    "updatePublishConfig"}

VARIABLES
    viewLoaded,         \* Set<string>: page keys fetched in this session
    publishViewLoaded,  \* Set<string>: published-view keys fetched in this session
    publishViewInfo,    \* Map<string, {...}>: publish info by view id (NoInfo: no entry)
    cacheStore,         \* the cache collaborator's persistent records, per class and key
    calls,              \* the retrieve calls issued so far, in order of invocation
    server,             \* the publish state held by the server
    infoCalls,          \* the getPublishInfo calls waiting for fetchViewInfo
    returned,           \* history: what the getPublishInfo call that ended last reported
    mutations,          \* the publish mutation requests sent and not yet received
    infoEpoch,          \* history: mutations invoked so far, invalidating ones per
                        \* view, and when the cached entry was fetched and stored
    userId,             \* token?.user.id as getTokenParsed() reports it
    syncs,              \* the SyncManager bindings created and initialized
    thrown,             \* history: what the registerDocUpdate called last threw
    userCalls           \* the getCurrentUser / getUserWorkspaceInfo calls issued

retrVars == <<viewLoaded, publishViewLoaded, cacheStore, calls>>
infoVars == <<publishViewInfo, server, infoCalls, returned, mutations, infoEpoch>>
sessVars == <<userId, syncs, thrown, userCalls>>
vars == <<viewLoaded, publishViewLoaded, publishViewInfo, cacheStore, calls,
          server, infoCalls, returned, mutations, infoEpoch,
          userId, syncs, thrown, userCalls>>

\* ---------------------------------------------------------------- helpers
ClassOf(op) == IF op = "getPageDoc" THEN PageClass ELSE PublishClass

Loaded(cls) == IF cls = PageClass THEN viewLoaded ELSE publishViewLoaded

\* Mutants of Strategy: the two strategies exchanged; the registry ignored.
StrategyInverted(isLoaded) == IF isLoaded THEN CACHE_AND_NETWORK ELSE CACHE_FIRST

StrategyAlwaysNetwork(isLoaded) == CACHE_AND_NETWORK

\* isLoaded ? StrategyType.CACHE_FIRST : StrategyType.CACHE_AND_NETWORK
Strategy(isLoaded) == IF isLoaded THEN CACHE_FIRST ELSE CACHE_AND_NETWORK

HasRecord(cls, k) == cacheStore[cls][k] # NoRecord

CallIds == 1..Len(calls)

\* A call and the detached task it may have started have both run to their end.
Settled(c) ==
    /\ calls[c].pc \in {"done", "rejected"}
    /\ calls[c].cleanup \in {"none", "done", "failed"}

\* Mutant of NewCall: a call that finds a fetch of its key in flight issues none.
NewCallDeduplicated(op, k) ==
    LET isLoaded == k \in Loaded(ClassOf(op))
        strategy == Strategy(isLoaded)
        shared == \E d \in CallIds :
                      /\ ClassOf(calls[d].op) = ClassOf(op) /\ calls[d].key = k
                      /\ calls[d].pc = "fetching"
    IN  [op |-> op, key |-> k, isLoaded |-> isLoaded, strategy |-> strategy,
         pc |-> IF strategy = CACHE_FIRST \/ shared THEN "lookup" ELSE "fetching",
         fetches |-> IF strategy = CACHE_FIRST \/ shared THEN 0 ELSE 1,
         result |-> NoRecord, fetchError |-> NoError, error |-> NoError,
         cleanup |-> "none", owed |-> FALSE, storedSince |-> NoRecord,
         alone |-> \A d \in CallIds :
                      (ClassOf(calls[d].op) = ClassOf(op) /\ calls[d].key = k)
                          => Settled(d)]

\* The state of a call right after its synchronous prefix: the registry has been
\* read, the strategy chosen and the cache collaborator invoked.  History: `alone`
\* records that no earlier call of the same class and key was still running,
\* `storedSince` the record stored while the call's own detached task was waiting.
NewCall(op, k) ==
    LET isLoaded == k \in Loaded(ClassOf(op))
        strategy == Strategy(isLoaded)
    IN  [op |-> op, key |-> k, isLoaded |-> isLoaded, strategy |-> strategy,
         pc |-> IF strategy = CACHE_FIRST THEN "lookup" ELSE "fetching",
         fetches |-> IF strategy = CACHE_FIRST THEN 0 ELSE 1,
         result |-> NoRecord, fetchError |-> NoError, error |-> NoError,
         cleanup |-> "none", owed |-> FALSE, storedSince |-> NoRecord,
         alone |-> \A d \in CallIds :
                      (ClassOf(calls[d].op) = ClassOf(op) /\ calls[d].key = k)
                          => Settled(d)]

\* The operations issued in the session so far.
Issued == Len(calls) + Len(userCalls) + Len(syncs)

Invoke(op, k) ==
    /\ Issued < MaxCalls
    /\ calls' = Append(calls, NewCall(op, k))
    /\ UNCHANGED <<viewLoaded, publishViewLoaded, cacheStore>>
    /\ UNCHANGED <<infoVars, sessVars>>

\* ---------------------------------------------------------------- retrieve operations
getPublishViewMeta(k) == Invoke("getPublishViewMeta", k)

getPublishView(k) == Invoke("getPublishView", k)

\* if (!userId) throw new Error('User not found'): the async method returns a
\* rejected promise; the registry is not read and the cache collaborator not called.
PageDocUserNotFound(k) ==
    /\ Issued < MaxCalls
    /\ calls' = Append(calls,
           [op |-> "getPageDoc", key |-> k, isLoaded |-> FALSE, strategy |-> "none",
            pc |-> "rejected", fetches |-> 0, result |-> NoRecord,
            fetchError |-> NoError, error |-> "User not found",
            cleanup |-> "none", owed |-> FALSE, storedSince |-> NoRecord,
            alone |-> TRUE])
    /\ UNCHANGED <<viewLoaded, publishViewLoaded, cacheStore>>
    /\ UNCHANGED <<infoVars, sessVars>>

\* Mutant of getPageDoc: the identity is not checked.
getPageDocUnchecked(k) == Invoke("getPageDoc", k)

getPageDoc(k) ==
    IF userId = NoUser THEN PageDocUserNotFound(k) ELSE Invoke("getPageDoc", k)

\* Cache collaborator, CACHE_FIRST: serve the stored value if present, else invoke
\* the network-fetch closure.
CacheLookup(c) ==
    /\ calls[c].pc = "lookup"
    /\ LET cls == ClassOf(calls[c].op)
           k == calls[c].key
       IN  IF HasRecord(cls, k)
           THEN calls' = [calls EXCEPT ![c].pc = "resolved",
                                       ![c].result = cacheStore[cls][k]]
           ELSE calls' = [calls EXCEPT ![c].pc = "fetching",
                                       ![c].fetches = @ + 1]
    /\ UNCHANGED <<viewLoaded, publishViewLoaded, cacheStore>>
    /\ UNCHANGED <<infoVars, sessVars>>

\* History: record r was stored for (cls, k) while the detached tasks of the failed
\* calls on that key were waiting for hasViewMetaCache.
Overtake(cs, cls, k, r) ==
    [d \in DOMAIN cs |->
        IF ClassOf(cs[d].op) = cls /\ cs[d].key = k /\ cs[d].cleanup = "check"
        THEN [cs[d] EXCEPT !.storedSince = r] ELSE cs[d]]

\* The network fetch resolves; the cache collaborator stores the result and
\* resolves the call it was given.
FetchResolve(c) ==
    /\ calls[c].pc = "fetching"
    /\ LET cls == ClassOf(calls[c].op)
           k == calls[c].key
       IN  /\ cacheStore' = [cacheStore EXCEPT ![cls][k] = c]
           /\ calls' = [Overtake(calls, cls, k, c) EXCEPT
                              ![c].pc = "resolved", ![c].result = c]
    /\ UNCHANGED <<viewLoaded, publishViewLoaded>>
    /\ UNCHANGED <<infoVars, sessVars>>

\* fetchPublishViewMeta resolves without a view meta (the view is not published):
\* the cache collaborator has nothing to store and resolves the call with it.
FetchResolveEmpty(c) ==
    /\ calls[c].pc = "fetching"
    /\ calls[c].op = "getPublishViewMeta"
    /\ calls' = [calls EXCEPT ![c].pc = "resolved", ![c].result = NoRecord]
    /\ UNCHANGED <<viewLoaded, publishViewLoaded, cacheStore>>
    /\ UNCHANGED <<infoVars, sessVars>>

\* History: an invalidation of (cls, k) fired, which settles what every failed
\* call on that key was owed.
Acquit(cs, cls, k) ==
    [d \in DOMAIN cs |->
        IF ClassOf(cs[d].op) = cls /\ cs[d].key = k
        THEN [cs[d] EXCEPT !.owed = FALSE] ELSE cs[d]]

\* Mutant of PublishViewFetchCatch: the invalidation is carried out before the
\* closure rejects.
PublishViewFetchCatchAwaited(c, e) ==
    IF HasRecord(PublishClass, calls[c].key)
    THEN /\ publishViewLoaded' = publishViewLoaded \ {calls[c].key}
         /\ calls' = [Acquit(calls, PublishClass, calls[c].key) EXCEPT
                              ![c].pc = "failed", ![c].fetchError = e,
                              ![c].cleanup = "deleting"]
         /\ UNCHANGED viewLoaded
    ELSE /\ calls' = [calls EXCEPT ![c].pc = "failed", ![c].fetchError = e,
                                   ![c].cleanup = "done"]
         /\ UNCHANGED <<viewLoaded, publishViewLoaded>>

\* Mutant of PublishViewFetchCatch: the fetch is issued a second time.
PublishViewFetchCatchRetry(c, e) ==
    /\ calls' = IF calls[c].fetches < 2
                THEN [calls EXCEPT ![c].fetches = @ + 1]
                ELSE [calls EXCEPT ![c].pc = "failed", ![c].fetchError = e,
                                   ![c].cleanup = "check"]
    /\ UNCHANGED <<viewLoaded, publishViewLoaded>>

\* The catch block of the network-fetch closure of getPublishView: the detached
\* task is started (it runs up to its await of hasViewMetaCache) and the closure
\* rejects with e.
PublishViewFetchCatch(c, e) ==
    /\ calls' = [calls EXCEPT ![c].pc = "failed", ![c].fetchError = e,
                              ![c].cleanup = "check",
                              ![c].owed = /\ calls[c].key \in publishViewLoaded
                                          /\ HasRecord(PublishClass, calls[c].key)]
    /\ UNCHANGED <<viewLoaded, publishViewLoaded>>

\* Mutant of PageDocFetchCatch: the key is removed from both registries.
PageDocFetchCatchBoth(c, e) ==
    /\ viewLoaded' = viewLoaded \ {calls[c].key}
    /\ publishViewLoaded' = publishViewLoaded \ {calls[c].key}
    /\ calls' = [Acquit(calls, PageClass, calls[c].key) EXCEPT
                              ![c].pc = "failed", ![c].fetchError = e,
                              ![c].cleanup = "deleting"]

\* The catch block of the network-fetch closure of getPageDoc: the detached task
\* has no await, so the registry removal and the deleteView call happen before the
\* closure rejects.
PageDocFetchCatch(c, e) ==
    /\ viewLoaded' = viewLoaded \ {calls[c].key}
    /\ calls' = [Acquit(calls, PageClass, calls[c].key) EXCEPT
                              ![c].pc = "failed", ![c].fetchError = e,
                              ![c].cleanup = "deleting"]
    /\ UNCHANGED publishViewLoaded

\* Mutant of PublishViewMetaFetchFail: a failed meta fetch invalidates the key.
PublishViewMetaFetchFailInvalidating(c, e) ==
    /\ calls' = [calls EXCEPT ![c].pc = "failed", ![c].fetchError = e]
    /\ publishViewLoaded' = publishViewLoaded \ {calls[c].key}
    /\ UNCHANGED viewLoaded

\* getPublishViewMeta passes fetchPublishViewMeta without a catch block.
PublishViewMetaFetchFail(c, e) ==
    /\ calls' = [calls EXCEPT ![c].pc = "failed", ![c].fetchError = e]
    /\ UNCHANGED <<viewLoaded, publishViewLoaded>>

\* The network fetch rejects with e.
FetchReject(c, e) ==
    /\ calls[c].pc = "fetching"
    /\ CASE calls[c].op = "getPublishView" -> PublishViewFetchCatch(c, e)
         [] calls[c].op = "getPageDoc" -> PageDocFetchCatch(c, e)
         [] OTHER -> PublishViewMetaFetchFail(c, e)
    /\ UNCHANGED cacheStore
    /\ UNCHANGED <<infoVars, sessVars>>

\* Mutant of Rejection: a failure of the detached task replaces the fetch error.
RejectionOfCleanup(c) ==
    IF calls[c].cleanup = "failed" THEN "DeleteFailed" ELSE calls[c].fetchError

\* return Promise.reject(e): the value the awaiting call rejects with.
Rejection(c) == calls[c].fetchError

\* The rejection of the closure reaches the awaiting call, which rejects with it.
Reject(c) ==
    /\ calls[c].pc = "failed"
    /\ calls' = [calls EXCEPT ![c].pc = "rejected", ![c].error = Rejection(c)]
    /\ UNCHANGED <<viewLoaded, publishViewLoaded, cacheStore>>
    /\ UNCHANGED <<infoVars, sessVars>>

\* if (!isLoaded) { this.<registry>.add(name); }
RegisterLoaded(registry, isLoaded, k) ==
    IF ~isLoaded THEN registry \cup {k} ELSE registry

\* Mutant of ViewMetaOutcome: an absent view meta is returned to the caller.
ViewMetaOutcomeUnchecked(viewMeta) == [pc |-> "done", error |-> NoError]

\* if (!viewMeta) return Promise.reject(new Error('View has not been published yet'))
ViewMetaOutcome(viewMeta) ==
    IF viewMeta = NoRecord
    THEN [pc |-> "rejected", error |-> "View has not been published yet"]
    ELSE [pc |-> "done", error |-> NoError]

\* The continuation of a call after its await resolved.
Finish(c) ==
    /\ calls[c].pc = "resolved"
    /\ calls' = IF calls[c].op = "getPublishViewMeta"
                THEN [calls EXCEPT ![c].pc = ViewMetaOutcome(calls[c].result).pc,
                                   ![c].error = ViewMetaOutcome(calls[c].result).error]
                ELSE [calls EXCEPT ![c].pc = "done"]
    /\ CASE calls[c].op = "getPublishView" ->
              /\ publishViewLoaded' =
                     RegisterLoaded(publishViewLoaded, calls[c].isLoaded, calls[c].key)
              /\ UNCHANGED viewLoaded
         [] calls[c].op = "getPageDoc" ->
              /\ viewLoaded' = RegisterLoaded(viewLoaded, calls[c].isLoaded, calls[c].key)
              /\ UNCHANGED publishViewLoaded
         [] OTHER -> UNCHANGED <<viewLoaded, publishViewLoaded>>
    /\ UNCHANGED cacheStore
    /\ UNCHANGED <<infoVars, sessVars>>

\* Mutant of InvalidatePublishView: the registry is cleared.
InvalidatePublishViewClearing(c) ==
    /\ calls[c].cleanup = "check"
    /\ IF HasRecord(PublishClass, calls[c].key)
       THEN /\ publishViewLoaded' = {}
            /\ calls' = [Acquit(calls, PublishClass, calls[c].key) EXCEPT
                              ![c].cleanup = "deleting", ![c].storedSince = NoRecord]
       ELSE /\ calls' = [calls EXCEPT ![c].cleanup = "done",
                                      ![c].storedSince = NoRecord]
            /\ UNCHANGED publishViewLoaded
    /\ UNCHANGED <<viewLoaded, cacheStore>>
    /\ UNCHANGED <<infoVars, sessVars>>

\* The detached task of getPublishView resumes after `await hasViewMetaCache(name)`.
InvalidatePublishView(c) ==
    /\ calls[c].cleanup = "check"
    /\ IF HasRecord(PublishClass, calls[c].key)
       THEN /\ publishViewLoaded' = publishViewLoaded \ {calls[c].key}
            /\ calls' = [Acquit(calls, PublishClass, calls[c].key) EXCEPT
                              ![c].cleanup = "deleting", ![c].storedSince = NoRecord]
       ELSE /\ calls' = [calls EXCEPT ![c].cleanup = "done",
                                      ![c].storedSince = NoRecord]
            /\ UNCHANGED publishViewLoaded
    /\ UNCHANGED <<viewLoaded, cacheStore>>
    /\ UNCHANGED <<infoVars, sessVars>>

\* The cache collaborator carries out a deleteView(name) it was handed.
DeleteViewDone(c) ==
    /\ calls[c].cleanup = "deleting"
    /\ cacheStore' = [cacheStore EXCEPT ![ClassOf(calls[c].op)][calls[c].key] = NoRecord]
    /\ calls' = [calls EXCEPT ![c].cleanup = "done"]
    /\ UNCHANGED <<viewLoaded, publishViewLoaded>>
    /\ UNCHANGED <<infoVars, sessVars>>

\* ... or fails to: nobody awaits the promise of `void deleteView(name)`.
DeleteViewFail(c) ==
    /\ calls[c].cleanup = "deleting"
    /\ calls' = [calls EXCEPT ![c].cleanup = "failed"]
    /\ UNCHANGED <<viewLoaded, publishViewLoaded, cacheStore>>
    /\ UNCHANGED <<infoVars, sessVars>>

\* ---------------------------------------------------------------- publish info
InfoCallIds == 1..Len(infoCalls)
MutationIds == 1..Len(mutations)

\* A sequence without its i-th element.
Without(seq, i) ==
    [j \in 1..(Len(seq) - 1) |-> IF j < i THEN seq[j] ELSE seq[j + 1]]

\* The publish name the server holds for a view.
PublishName(v) == IF v = "view42" THEN "launch-notes" ELSE "roadmap"

\* What the server answers to fetchViewInfo(v): an unpublished view has no namespace.
ViewInfoOf(v) ==
    IF server.views[v].published
    THEN [namespace |-> server.namespace, publish_name |-> PublishName(v), view_id |-> v,
          publish_timestamp |-> server.views[v].rev]
    ELSE [namespace |-> NoNamespace, publish_name |-> NoView, view_id |-> v,
          publish_timestamp |-> 0]

\* Mutant of ShapeInfo: publishName taken from the wrong field.
ShapeInfoSwapped(info) ==
    [namespace |-> info.namespace, publishName |-> info.view_id,
     viewId |-> info.view_id, publishedAt |-> info.publish_timestamp]

\* const data = { namespace, publishName: info.publish_name, ... }
ShapeInfo(info) ==
    [namespace |-> info.namespace, publishName |-> info.publish_name,
     viewId |-> info.view_id, publishedAt |-> info.publish_timestamp]

\* History kept beside the cache: every operation is counted; a put stamps the
\* entry with the number of invalidating mutations invoked on the view so far, and
\* with that number as it was when the server produced the stored response.
StampCall == [infoEpoch EXCEPT !.count = @ + 1]

StampPut(v, respondedAt) ==
    [infoEpoch EXCEPT !.putAt[v] = infoEpoch.muts[v], !.fetchedAt[v] = respondedAt]

StampMutation(affected) ==
    [infoEpoch EXCEPT !.count = @ + 1,
                      !.muts = [v \in Views |->
                                   IF v \in affected THEN @[v] + 1 ELSE @[v]]]

\* Mutant of CachedInfo: the lookup never finds an entry.
CachedInfoMissing(v) == NoInfo

\* if (this.publishViewInfo.has(viewId)) return this.publishViewInfo.get(viewId)
CachedInfo(v) == publishViewInfo[v]

\* getPublishInfo(viewId) up to its first await: a cached entry is returned at
\* once, otherwise fetchViewInfo(viewId) is issued.
getPublishInfo(v) ==
    /\ infoEpoch.count < MaxInfoOps
    /\ infoEpoch' = StampCall
    /\ IF CachedInfo(v) # NoInfo
       THEN /\ returned' = [viewId |-> v, outcome |-> "resolved", hit |-> TRUE,
                            result |-> CachedInfo(v), error |-> NoError,
                            startMuts |-> infoEpoch.muts[v],
                            startPutAt |-> infoEpoch.putAt[v],
                            resultPutAt |-> infoEpoch.putAt[v],
                            resultFetchedAt |-> infoEpoch.fetchedAt[v]]
            /\ UNCHANGED infoCalls
       ELSE /\ infoCalls' = Append(infoCalls,
                   [viewId |-> v, pc |-> "fetching", response |-> NoResponse,
                    respondedAt |-> -1,
                    startMuts |-> infoEpoch.muts[v],
                    startPutAt |-> infoEpoch.putAt[v]])
            /\ UNCHANGED returned
    /\ UNCHANGED <<publishViewInfo, server, mutations>>
    /\ UNCHANGED <<retrVars, sessVars>>

\* The server answers a fetchViewInfo request with the view's state of that moment.
ViewInfoRespond(g) ==
    /\ infoCalls[g].pc = "fetching"
    /\ infoCalls' = [infoCalls EXCEPT ![g].pc = "responded",
                                      ![g].response = ViewInfoOf(infoCalls[g].viewId),
                                      ![g].respondedAt =
                                          infoEpoch.muts[infoCalls[g].viewId]]
    /\ UNCHANGED <<publishViewInfo, server, mutations, infoEpoch, returned>>
    /\ UNCHANGED <<retrVars, sessVars>>

\* What a getPublishInfo call that went to the network reports when it ends.
Returns(g, outcome, result, error, putAt, fetchedAt) ==
    [viewId |-> infoCalls[g].viewId, outcome |-> outcome, hit |-> FALSE,
     result |-> result, error |-> error,
     startMuts |-> infoCalls[g].startMuts, startPutAt |-> infoCalls[g].startPutAt,
     resultPutAt |-> putAt, resultFetchedAt |-> fetchedAt]

\* fetchViewInfo rejects: the await throws and getPublishInfo rejects with e.
ViewInfoReject(g, e) ==
    /\ infoCalls[g].pc = "fetching"
    /\ infoCalls' = Without(infoCalls, g)
    /\ returned' = Returns(g, "rejected", NoInfo, e, -1, -1)
    /\ UNCHANGED <<publishViewInfo, server, mutations, infoEpoch>>
    /\ UNCHANGED <<retrVars, sessVars>>

\* getPublishInfo after `await fetchViewInfo(viewId)`.
PublishInfoLoaded(g) ==
    /\ infoCalls[g].pc = "responded"
    /\ infoCalls' = Without(infoCalls, g)
    /\ LET v == infoCalls[g].viewId
           info == infoCalls[g].response
       IN  IF info.namespace = NoNamespace
           THEN /\ returned' = Returns(g, "rejected", NoInfo, "View not found", -1, -1)
                /\ UNCHANGED <<publishViewInfo, infoEpoch>>
           ELSE /\ publishViewInfo' = [publishViewInfo EXCEPT ![v] = ShapeInfo(info)]
                /\ infoEpoch' = StampPut(v, infoCalls[g].respondedAt)
                /\ returned' = Returns(g, "resolved", ShapeInfo(info), NoError,
                                       infoEpoch.muts[v], infoCalls[g].respondedAt)
    /\ UNCHANGED <<server, mutations>>
    /\ UNCHANGED <<retrVars, sessVars>>

\* Mutants of the invalidations: the entry is left in place.
InfoAfterPublishViewKept(v) == publishViewInfo

InfoAfterUpdatePublishNamespaceKept == publishViewInfo

\* The cache as each mutating operation leaves it before its request goes out.
\* if (this.publishViewInfo.has(viewId)) { this.publishViewInfo.delete(viewId); }
InfoAfterPublishView(v) == [publishViewInfo EXCEPT ![v] = NoInfo]

\* Mutant of InfoAfterUnpublishView: a view without entry makes it drop every entry.
InfoAfterUnpublishViewClearing(v) ==
    IF publishViewInfo[v] = NoInfo
    THEN [w \in Views |-> NoInfo]
    ELSE [publishViewInfo EXCEPT ![v] = NoInfo]

InfoAfterUnpublishView(v) == [publishViewInfo EXCEPT ![v] = NoInfo]

\* this.publishViewInfo.clear();
InfoAfterUpdatePublishNamespace == [w \in Views |-> NoInfo]

\* this.publishViewInfo.delete(config.view_id);
InfoAfterUpdatePublishConfig(v) == [publishViewInfo EXCEPT ![v] = NoInfo]

\* updatePublishHomepage and removePublishHomepage only delegate to APIService.
InfoAfterUpdatePublishHomepage(v) == publishViewInfo

InfoAfterRemovePublishHomepage == publishViewInfo

\* A mutating operation: its synchronous part, ending with the request handed to
\* APIService.
Mutate(op, v, info, affected) ==
    /\ infoEpoch.count < MaxInfoOps
    /\ publishViewInfo' = info
    /\ mutations' = Append(mutations, [op |-> op, viewId |-> v])
    /\ infoEpoch' = StampMutation(affected)
    /\ UNCHANGED <<server, infoCalls, returned>>
    /\ UNCHANGED <<retrVars, sessVars>>

publishView(v) == Mutate("publishView", v, InfoAfterPublishView(v), {v})

unpublishView(v) == Mutate("unpublishView", v, InfoAfterUnpublishView(v), {v})

updatePublishNamespace ==
    Mutate("updatePublishNamespace", NoView, InfoAfterUpdatePublishNamespace, Views)

updatePublishHomepage(v) ==
    Mutate("updatePublishHomepage", v, InfoAfterUpdatePublishHomepage(v), {})

removePublishHomepage ==
    Mutate("removePublishHomepage", NoView, InfoAfterRemovePublishHomepage, {})

updatePublishConfig(v) ==
    Mutate("updatePublishConfig", v, InfoAfterUpdatePublishConfig(v), {v})

\* The server carries out a mutation it received.
ServerAfter(op, v) ==
    CASE op = "publishView" ->
            [server EXCEPT !.views[v] = [published |-> TRUE, rev |-> @.rev + 1]]
      [] op = "unpublishView" ->
            [server EXCEPT !.views[v].published = FALSE]
      [] op = "updatePublishNamespace" ->
            [server EXCEPT !.namespace = @ + 1]
      [] op = "updatePublishConfig" ->
            [server EXCEPT !.views[v].rev = @ + 1]
      [] op = "updatePublishHomepage" ->
            [server EXCEPT !.homepage = v]
      [] OTHER ->
            [server EXCEPT !.homepage = NoView]

\* The requests still on their way are kept in the order they were sent; the
\* server may receive them in any order.
ServerApply(m) ==
    /\ server' = ServerAfter(mutations[m].op, mutations[m].viewId)
    /\ mutations' = Without(mutations, m)
    /\ UNCHANGED <<publishViewInfo, infoCalls, infoEpoch, returned>>
    /\ UNCHANGED <<retrVars, sessVars>>

\* ---------------------------------------------------------------- session operations
UserCallIds == 1..Len(userCalls)

\* if (!userId) { throw new Error('User not found'); }
IdentityMissing == userId = NoUser

\* registerDocUpdate(doc, context): synchronous; throws without identity, otherwise
\* constructs a SyncManager for {userId, ...context} and initializes it.
registerDocUpdate(d) ==
    /\ Issued < MaxCalls
    /\ IF IdentityMissing
       THEN /\ thrown' = "User not found"
            /\ UNCHANGED syncs
       ELSE /\ thrown' = NoError
            /\ syncs' = Append(syncs, [userId |-> userId, objectId |-> d,
                                       initialized |-> TRUE])
    /\ UNCHANGED <<userId, userCalls>>
    /\ UNCHANGED <<retrVars, infoVars>>

\* A user call up to its await: getCurrentUser hands APIService.getCurrentUser to the
\* cache collaborator with CACHE_AND_NETWORK; getUserWorkspaceInfo awaits
\* APIService.getUserWorkspaceInfo directly.  Either way a request goes out.
InvokeUser(op) ==
    /\ Issued < MaxCalls
    /\ userCalls' = Append(userCalls,
           [op |-> op, pc |-> "fetching", present |-> FALSE, error |-> NoError])
    /\ UNCHANGED <<userId, syncs, thrown>>
    /\ UNCHANGED <<retrVars, infoVars>>

getCurrentUser == InvokeUser("getCurrentUser")

getUserWorkspaceInfo == InvokeUser("getUserWorkspaceInfo")

\* The awaited promise resolves, with an entity or with none.
UserFetchResolve(u, present) ==
    /\ userCalls[u].pc = "fetching"
    /\ userCalls' = [userCalls EXCEPT ![u].pc = "resolved", ![u].present = present]
    /\ UNCHANGED <<userId, syncs, thrown>>
    /\ UNCHANGED <<retrVars, infoVars>>

\* The awaited promise rejects; neither method has a catch block, so the call
\* rejects with the same error.
UserFetchReject(u, e) ==
    /\ userCalls[u].pc = "fetching"
    /\ userCalls' = [userCalls EXCEPT ![u].pc = "rejected", ![u].error = e]
    /\ UNCHANGED <<userId, syncs, thrown>>
    /\ UNCHANGED <<retrVars, infoVars>>

\* new Error('User not found') / new Error('Workspace info not found')
NotFoundError(op) ==
    IF op = "getCurrentUser" THEN "User not found" ELSE "Workspace info not found"

\* if (!user) return Promise.reject(...); return user   (and the same for
\* workspaceInfo).
UserFinish(u) ==
    /\ userCalls[u].pc = "resolved"
    /\ userCalls' = IF userCalls[u].present
                    THEN [userCalls EXCEPT ![u].pc = "done"]
                    ELSE [userCalls EXCEPT ![u].pc = "rejected",
                                           ![u].error = NotFoundError(userCalls[u].op)]
    /\ UNCHANGED <<userId, syncs, thrown>>
    /\ UNCHANGED <<retrVars, infoVars>>

\* ---------------------------------------------------------------- specification
\* private viewLoaded = new Set(); private publishViewLoaded = new Set();
\* private publishViewInfo = new Map();  Nothing has been called yet.
Constructed ==
    /\ viewLoaded = {}
    /\ publishViewLoaded = {}
    /\ publishViewInfo = [v \in Views |-> NoInfo]
    /\ calls = <<>>
    /\ infoCalls = <<>>
    /\ returned = [viewId |-> NoView, outcome |-> "none", hit |-> FALSE,
                   result |-> NoInfo, error |-> NoError, startMuts |-> 0,
                   startPutAt |-> -1, resultPutAt |-> -1, resultFetchedAt |-> -1]
    /\ mutations = <<>>
    /\ infoEpoch = [count |-> 0, muts |-> [v \in Views |-> 0],
                    putAt |-> [v \in Views |-> -1],
                    fetchedAt |-> [v \in Views |-> -1]]
    /\ syncs = <<>>
    /\ thrown = NoError
    /\ userCalls = <<>>

\* The persistent cache may hold records of earlier sessions; a user is signed in.
Init ==
    /\ Constructed
    /\ userId \in UserIds
    /\ cacheStore \in [Classes -> [AllKeys -> {NoRecord, OldRecord}]]
    /\ \A cls \in Classes, k \in AllKeys \ Keys : cacheStore[cls][k] = NoRecord
    /\ server = [namespace |-> 1, homepage |-> NoView,
                 views |-> [v \in Views |-> [published |-> TRUE, rev |-> 1]]]

Next ==
    \/ \E k \in Keys : getPublishViewMeta(k)
    \/ \E k \in Keys : getPublishView(k)
    \/ \E k \in Keys : getPageDoc(k)
    \/ \E c \in CallIds : CacheLookup(c)
    \/ \E c \in CallIds : FetchResolve(c)
    \/ \E c \in CallIds, e \in FetchErrors : FetchReject(c, e)
    \/ \E c \in CallIds : Reject(c)
    \/ \E c \in CallIds : Finish(c)
    \/ \E c \in CallIds : InvalidatePublishView(c)
    \/ \E c \in CallIds : DeleteViewDone(c)
    \/ \E c \in CallIds : DeleteViewFail(c)

Spec == Init /\ [][Next]_vars

\* The publish-info cache and the operations that read and invalidate it.
InfoNext ==
    \/ \E v \in Views : getPublishInfo(v)
    \/ \E g \in InfoCallIds : ViewInfoRespond(g)
    \/ \E g \in InfoCallIds, e \in FetchErrors : ViewInfoReject(g, e)
    \/ \E g \in InfoCallIds : PublishInfoLoaded(g)
    \/ \E v \in Views : publishView(v)
    \/ \E v \in Views : unpublishView(v)
    \/ updatePublishNamespace
    \/ \E v \in Views : updatePublishHomepage(v)
    \/ removePublishHomepage
    \/ \E v \in Views : updatePublishConfig(v)
    \/ \E m \in MutationIds : ServerApply(m)

\* Any of the views may be published when the session starts.
InfoInit ==
    /\ Constructed
    /\ userId \in UserIds
    /\ cacheStore = [cls \in Classes |-> [k \in AllKeys |-> NoRecord]]
    /\ server \in [namespace : {1}, homepage : {NoView},
                  views : [Views -> [published : BOOLEAN, rev : {1}]]]

InfoSpec == InfoInit /\ [][InfoNext]_vars

\* The operations that depend on the session's identity or report an absent
\* entity, with or without a signed-in user.
SessionNext ==
    \/ \E k \in Keys : getPublishViewMeta(k)
    \/ \E k \in Keys : getPageDoc(k)
    \/ \E d \in Docs : registerDocUpdate(d)
    \/ getCurrentUser
    \/ getUserWorkspaceInfo
    \/ \E c \in CallIds : CacheLookup(c)
    \/ \E c \in CallIds : FetchResolve(c)
    \/ \E c \in CallIds : FetchResolveEmpty(c)
    \/ \E c \in CallIds, e \in FetchErrors : FetchReject(c, e)
    \/ \E c \in CallIds : Reject(c)
    \/ \E c \in CallIds : Finish(c)
    \/ \E c \in CallIds : DeleteViewDone(c)
    \/ \E c \in CallIds : DeleteViewFail(c)
    \/ \E u \in UserCallIds, present \in BOOLEAN : UserFetchResolve(u, present)
    \/ \E u \in UserCallIds, e \in FetchErrors : UserFetchReject(u, e)
    \/ \E u \in UserCallIds : UserFinish(u)

SessionInit ==
    /\ Constructed
    /\ userId \in UserIds \cup {NoUser}
    /\ cacheStore = [cls \in Classes |-> [k \in AllKeys |-> NoRecord]]
    /\ server = [namespace |-> 1, homepage |-> NoView,
                 views |-> [v \in Views |-> [published |-> TRUE, rev |-> 1]]]

SessionSpec == SessionInit /\ [][SessionNext]_vars

\* The retrieve operations on two keys of each class.
RegistryNext ==
    \/ \E k \in AllKeys : getPublishViewMeta(k)
    \/ \E k \in AllKeys : getPublishView(k)
    \/ \E k \in AllKeys : getPageDoc(k)
    \/ \E c \in CallIds : CacheLookup(c)
    \/ \E c \in CallIds : FetchResolve(c)
    \/ \E c \in CallIds, e \in FetchErrors : FetchReject(c, e)
    \/ \E c \in CallIds : Reject(c)
    \/ \E c \in CallIds : Finish(c)
    \/ \E c \in CallIds : InvalidatePublishView(c)
    \/ \E c \in CallIds : DeleteViewDone(c)
    \/ \E c \in CallIds : DeleteViewFail(c)

\* Every key has a record of an earlier session.
RegistryInit ==
    /\ Constructed
    /\ userId \in UserIds
    /\ cacheStore = [cls \in Classes |-> [k \in AllKeys |-> OldRecord]]
    /\ server = [namespace |-> 1, homepage |-> NoView,
                 views |-> [v \in Views |-> [published |-> TRUE, rev |-> 1]]]

RegistrySpec == RegistryInit /\ [][RegistryNext]_vars

\* The two operations on published views, with a view meta that may be absent.
ViewMetaNext ==
    \/ \E k \in Keys : getPublishViewMeta(k)
    \/ \E k \in Keys : getPublishView(k)
    \/ \E c \in CallIds : CacheLookup(c)
    \/ \E c \in CallIds : FetchResolve(c)
    \/ \E c \in CallIds : FetchResolveEmpty(c)
    \/ \E c \in CallIds, e \in FetchErrors : FetchReject(c, e)
    \/ \E c \in CallIds : Reject(c)
    \/ \E c \in CallIds : Finish(c)
    \/ \E c \in CallIds : InvalidatePublishView(c)
    \/ \E c \in CallIds : DeleteViewDone(c)
    \/ \E c \in CallIds : DeleteViewFail(c)

ViewMetaSpec == Init /\ [][ViewMetaNext]_vars

\* ---------------------------------------------------------------- properties
RegistryOps == {"getPublishView", "getPageDoc"}

\* C1: every retrieve call requests CACHE_AND_NETWORK from the cache collaborator
\* when its key is not in the registry of its class at the moment it is invoked,
\* and CACHE_FIRST when the key is in it.
C1_StrategyFollowsRegistry ==
    [][\A op \in RetrieveOps, k \in Keys :
          Invoke(op, k) =>
              calls'[Len(calls')].strategy =
                  IF k \in Loaded(ClassOf(op)) THEN CACHE_FIRST ELSE CACHE_AND_NETWORK]_vars

C1_Witness ==
    \E c, d \in CallIds :
        /\ calls[c].op = "getPublishViewMeta" /\ calls[c].strategy = CACHE_FIRST
        /\ calls[d].op = "getPageDoc" /\ calls[d].strategy = CACHE_AND_NETWORK
        /\ calls[d].key \in viewLoaded

\* C2: when a retrieve call resolves successfully its key is in the registry of its
\* class, and a key leaves a registry only by an invalidation of that key, in every
\* interleaving of calls.
C2_RegisteredAfterSuccess ==
    /\ [][\A c \in CallIds :
            (Finish(c) /\ calls[c].op \in RegistryOps)
                => calls[c].key \in Loaded(ClassOf(calls[c].op))']_vars
    /\ [][\A cls \in Classes, k \in Keys :
            (k \in Loaded(cls) /\ k \notin Loaded(cls)')
                => \E c \in CallIds :
                      /\ ClassOf(calls[c].op) = cls /\ calls[c].key = k
                      /\ \/ InvalidatePublishView(c)
                         \/ \E e \in FetchErrors : FetchReject(c, e)]_vars

\* C3: once the network fetch of a call was rejected while its key was registered
\* and had a stored record, the key is removed from the registry and a delete of the
\* record is handed to the cache collaborator by the time the call's detached task
\* has ended.
C3_FailureInvalidates ==
    \A c \in CallIds :
        calls[c].cleanup \in {"done", "failed"} => ~calls[c].owed

\* The calls on the key of call c, up to and including c, never overlapped: each was
\* invoked after the earlier ones and their detached tasks had ended.
SequentialUpTo(c) ==
    \A d \in 1..c :
        (ClassOf(calls[d].op) = ClassOf(calls[c].op) /\ calls[d].key = calls[c].key)
            => calls[d].alone

\* Call d is a first retrieve of the key of c: the key was not registered, the
\* fetch was issued and resolved, the result stored and the call completed.
FirstRetrieveOf(d, c) ==
    /\ d < c
    /\ calls[d].op = calls[c].op /\ calls[d].key = calls[c].key
    /\ ~calls[d].isLoaded
    /\ calls[d].pc = "done"
    /\ calls[d].fetches = 1
    /\ calls[d].result = d

\* C6: when a key absent from the registry has been retrieved from the network, a
\* second retrieve of it, issued after the first ended, selects CACHE_FIRST, issues
\* no fetch (so no network outcome can make it reject), resolves with the stored
\* record and starts no invalidation.
C6_SecondRetrieveFromCache ==
    \A c \in CallIds :
        (/\ calls[c].op \in RegistryOps
         /\ SequentialUpTo(c)
         /\ \E d \in CallIds : FirstRetrieveOf(d, c))
            => /\ calls[c].isLoaded
               /\ calls[c].strategy = CACHE_FIRST
               /\ calls[c].fetches = 0
               /\ calls[c].pc \in {"lookup", "resolved", "done"}
               /\ calls[c].cleanup = "none"
               /\ calls[c].pc \in {"resolved", "done"}
                      => calls[c].result = cacheStore[ClassOf(calls[c].op)][calls[c].key]

C6_Witness ==
    \E c \in CallIds :
        /\ calls[c].op \in RegistryOps
        /\ SequentialUpTo(c)
        /\ c = 2
        /\ FirstRetrieveOf(1, c)
        /\ calls[c].pc = "done"
        /\ calls[c].fetches = 0
        /\ calls[c].result = 1

\* C7 as stated, for both classes: when the fetch fails and the cache holds no
\* record for the key, the invalidation changes no registry and hands no delete to
\* the cache collaborator.
C7_NoRecordNoInvalidation ==
    [][\A c \in CallIds :
          /\ (InvalidatePublishView(c) /\ ~HasRecord(PublishClass, calls[c].key))
                => /\ publishViewLoaded' = publishViewLoaded
                   /\ viewLoaded' = viewLoaded
                   /\ calls'[c].cleanup = "done"
          /\ ((\E e \in FetchErrors : FetchReject(c, e))
                /\ calls[c].op = "getPageDoc" /\ ~HasRecord(PageClass, calls[c].key))
                => /\ publishViewLoaded' = publishViewLoaded
                   /\ viewLoaded' = viewLoaded
                   /\ calls'[c].cleanup \notin {"deleting", "failed"}]_vars

\* C8: a call whose network fetch was rejected never resolves, rejects with the
\* error the fetch was rejected with whatever its detached task has done, and the
\* steps that reject it add no key to a registry.
C8_RejectsWithFetchError ==
    /\ [](\A c \in CallIds :
            calls[c].fetchError # NoError
                => /\ calls[c].pc \in {"failed", "rejected"}
                   /\ calls[c].pc = "rejected" => calls[c].error = calls[c].fetchError)
    /\ [][\A c \in CallIds :
            ((\E e \in FetchErrors : FetchReject(c, e)) \/ Reject(c))
                => /\ viewLoaded' \subseteq viewLoaded
                   /\ publishViewLoaded' \subseteq publishViewLoaded]_vars

C8_Witness ==
    \E c, d \in CallIds :
        /\ calls[c].pc = "rejected" /\ calls[c].error \in FetchErrors
        /\ calls[c].cleanup = "failed"
        /\ calls[d].pc = "rejected" /\ calls[d].error \in FetchErrors
        /\ calls[d].cleanup = "check"

\* ---------------------------------------------------------------- publish info properties
\* A put of an entry for v has happened since the last invalidating mutation on v
\* was invoked (or since the session began, if there was none).
StoredSinceMutation(v) == infoEpoch.putAt[v] = infoEpoch.muts[v]

\* C4: a getPublishInfo(viewId) call that starts after publishView, unpublishView,
\* updatePublishConfig for that view or updatePublishNamespace was invoked never
\* returns a record that was put in the cache before that mutation was invoked; the
\* first such call after the mutation goes to the network.
C4_NoPreMutationRecord ==
    returned.startMuts > 0 =>
        /\ returned.outcome = "resolved" => returned.resultPutAt >= returned.startMuts
        /\ returned.startPutAt < returned.startMuts => ~returned.hit

C4_Witness ==
    /\ returned.outcome = "resolved"
    /\ returned.startMuts > 0
    /\ returned.startPutAt >= 0
    /\ returned.startPutAt < returned.startMuts
    /\ ~returned.hit

\* C5 as stated: each of the six mutating operations removes the affected entry
\* (the whole cache for the namespace-wide ones) in its synchronous part.
C5_AllMutationsInvalidate ==
    [][/\ \A v \in Views :
            (publishView(v) \/ unpublishView(v) \/ updatePublishConfig(v)
                \/ updatePublishHomepage(v)) => publishViewInfo'[v] = NoInfo
       /\ (updatePublishNamespace \/ removePublishHomepage)
              => \A w \in Views : publishViewInfo'[w] = NoInfo]_vars

\* C5 amended: publishView, unpublishView and updatePublishConfig remove the entry
\* of their view, and updatePublishNamespace clears the cache, in the step that hands
\* the request to the network and not later; updatePublishHomepage and
\* removePublishHomepage leave the cache as it is.
C5_InvalidateBeforeRequest ==
    [][/\ \A v \in Views :
            (publishView(v) \/ unpublishView(v) \/ updatePublishConfig(v))
                => /\ publishViewInfo'[v] = NoInfo
                   /\ \A w \in Views \ {v} : publishViewInfo'[w] = publishViewInfo[w]
                   /\ Len(mutations') = Len(mutations) + 1
       /\ updatePublishNamespace
              => /\ \A w \in Views : publishViewInfo'[w] = NoInfo
                 /\ Len(mutations') = Len(mutations) + 1
       /\ ((\E v \in Views : updatePublishHomepage(v)) \/ removePublishHomepage)
              => publishViewInfo' = publishViewInfo
       /\ \A m \in MutationIds : ServerApply(m) => publishViewInfo' = publishViewInfo]_vars

C5_Witness ==
    \E v \in Views :
        /\ infoEpoch.putAt[v] >= 0
        /\ infoEpoch.putAt[v] < infoEpoch.muts[v]
        /\ publishViewInfo[v] = NoInfo
        /\ Len(mutations) > 0
        /\ mutations[Len(mutations)].op \in InvalidatingOps

\* C9: getPublishInfo(viewId) with an entry for viewId in the cache returns that
\* entry, issues no fetch and leaves the cache alone; a call that follows a stored
\* result with no mutation in between is such a call; updatePublishConfig removes the
\* entry of its view, and a call that finds no entry issues a fetch.
C9_HitNeedsNoNetwork ==
    [][\A v \in Views :
          /\ (getPublishInfo(v) /\ publishViewInfo[v] # NoInfo)
                => /\ returned'.outcome = "resolved"
                   /\ returned'.viewId = v
                   /\ returned'.result = publishViewInfo[v]
                   /\ infoCalls' = infoCalls
                   /\ publishViewInfo' = publishViewInfo
          /\ (getPublishInfo(v) /\ StoredSinceMutation(v))
                => publishViewInfo[v] # NoInfo
          /\ updatePublishConfig(v) => publishViewInfo'[v] = NoInfo
          /\ (getPublishInfo(v) /\ publishViewInfo[v] = NoInfo)
                => /\ Len(infoCalls') = Len(infoCalls) + 1
                   /\ infoCalls'[Len(infoCalls')].viewId = v
                   /\ infoCalls'[Len(infoCalls')].pc = "fetching"]_vars

C9_Witness ==
    /\ returned.hit
    /\ returned.outcome = "resolved"
    /\ returned.result = publishViewInfo[returned.viewId]
    /\ infoCalls = <<>>

\* C10: on a miss getPublishInfo fetches; a response without namespace makes it
\* reject with 'View not found' and leaves the cache unchanged; any other response
\* is stored under viewId, shaped field by field, and the call returns the stored
\* record.
C10_MissFetchesAndStores ==
    [][/\ \A v \in Views :
            (getPublishInfo(v) /\ publishViewInfo[v] = NoInfo)
                => Len(infoCalls') = Len(infoCalls) + 1
       /\ \A g \in InfoCallIds :
            PublishInfoLoaded(g) =>
                LET v == infoCalls[g].viewId
                    info == infoCalls[g].response
                IN  IF info.namespace = NoNamespace
                    THEN /\ returned'.outcome = "rejected"
                         /\ returned'.error = "View not found"
                         /\ publishViewInfo' = publishViewInfo
                    ELSE /\ returned'.outcome = "resolved"
                         /\ returned'.result = publishViewInfo'[v]
                         /\ publishViewInfo'[v].namespace = info.namespace
                         /\ publishViewInfo'[v].publishName = info.publish_name
                         /\ publishViewInfo'[v].viewId = info.view_id
                         /\ publishViewInfo'[v].publishedAt = info.publish_timestamp
                         /\ \A w \in Views \ {v} :
                                publishViewInfo'[w] = publishViewInfo[w]]_vars

C10_Witness ==
    /\ returned.outcome = "rejected"
    /\ returned.error = "View not found"
    /\ \E v \in Views :
          /\ v # returned.viewId
          /\ publishViewInfo[v] # NoInfo
          /\ publishViewInfo[v].publishName = PublishName(v)
    /\ publishViewInfo[returned.viewId] = NoInfo

\* The operations that invalidate the entry of one view.
ViewInvalidatingOps == {"publishView", "unpublishView", "updatePublishConfig"}

\* C11: invalidating the entry of a view through publishView, unpublishView or
\* updatePublishConfig is idempotent: applied to the cache it has just produced,
\* each of the three invalidations gives that cache again; on a view without entry
\* it changes nothing, and the operation goes on to hand its request to the network.
C11_InvalidateIdempotent ==
    [][\A v \in Views :
          (publishView(v) \/ unpublishView(v) \/ updatePublishConfig(v))
              => /\ publishViewInfo'[v] = NoInfo
                 /\ InfoAfterPublishView(v)' = publishViewInfo'
                 /\ InfoAfterUnpublishView(v)' = publishViewInfo'
                 /\ InfoAfterUpdatePublishConfig(v)' = publishViewInfo'
                 /\ publishViewInfo[v] = NoInfo => publishViewInfo' = publishViewInfo
                 /\ Len(mutations') = Len(mutations) + 1]_vars

\* An entry was stored, then two invalidations of its view were invoked in a row.
C11_Witness ==
    \E v \in Views :
        /\ Len(mutations) = 2
        /\ \A m \in MutationIds :
              mutations[m].viewId = v /\ mutations[m].op \in ViewInvalidatingOps
        /\ infoEpoch.putAt[v] = 0
        /\ infoEpoch.muts[v] = 2
        /\ publishViewInfo[v] = NoInfo

\* C18: a getPublishInfo(viewId) call is never served a record that the server
\* produced before an invalidating mutation of viewId which had been invoked when
\* the call started, whatever reads overlapped that mutation.
C18_NoPreMutationRecordServed ==
    returned.outcome = "resolved" => returned.resultFetchedAt >= returned.startMuts

\* ---------------------------------------------------------------- retrieve properties, continued
\* The detached task of call c takes a step.
CleanupStep(c) == InvalidatePublishView(c) \/ DeleteViewDone(c) \/ DeleteViewFail(c)

\* C14: within one retrieve call the network fetch is issued at most once; when it
\* fails the call issues no other fetch and its only further step is the rejection,
\* with the error of the fetch; what follows the failure besides is the detached
\* invalidation, which touches nothing but the registry entry and the stored record
\* of the call's own class and key.
C14_NoRetries ==
    /\ [](\A c \in CallIds :
            /\ calls[c].fetches <= 1
            /\ calls[c].fetchError # NoError
                  => calls[c].fetches = 1 /\ calls[c].pc \in {"failed", "rejected"})
    /\ [][\A c \in CallIds :
            /\ (calls[c].pc = "fetching" /\ calls'[c].fetchError # NoError)
                  => /\ calls'[c].pc = "failed"
                     /\ calls'[c].fetches = calls[c].fetches
                     /\ cacheStore' = cacheStore
            /\ calls[c].fetchError # NoError
                  => /\ calls'[c].fetches = calls[c].fetches
                     /\ calls'[c].pc # calls[c].pc
                            => /\ calls'[c].pc = "rejected"
                               /\ calls'[c].error = calls[c].fetchError
                     /\ calls'[c].cleanup # calls[c].cleanup => CleanupStep(c)
            /\ (calls'[c].cleanup # calls[c].cleanup /\ calls[c].cleanup # "none")
                  => /\ calls[c].fetchError # NoError
                     /\ Loaded(ClassOf(calls[c].op))' \subseteq Loaded(ClassOf(calls[c].op))
                     /\ Loaded(ClassOf(calls[c].op)) \ Loaded(ClassOf(calls[c].op))'
                            \subseteq {calls[c].key}
                     /\ \A cls \in Classes, k \in AllKeys :
                            cacheStore'[cls][k] # cacheStore[cls][k]
                                => /\ cls = ClassOf(calls[c].op) /\ k = calls[c].key
                                   /\ cacheStore'[cls][k] = NoRecord]_vars

\* A CACHE_FIRST call missed, issued its one fetch, was rejected, and its detached
\* task has run to its end.
C14_Witness ==
    \E c \in CallIds :
        /\ calls[c].strategy = CACHE_FIRST
        /\ calls[c].fetches = 1
        /\ calls[c].pc = "rejected"
        /\ calls[c].error \in FetchErrors
        /\ calls[c].cleanup \in {"done", "failed"}

\* C15: the published-view registry and the stored records of the published-view
\* class change only in steps of published-view calls, and the page registry and
\* the stored records of the page class only in steps of getPageDoc calls, although
\* both classes use the same key strings: a change to one registry is a step of a
\* call of its class on the key that changed, and leaves the other registry alone.
C15_RegistriesPartitioned ==
    [][/\ publishViewLoaded' # publishViewLoaded
            => /\ viewLoaded' = viewLoaded
               /\ cacheStore'[PageClass] = cacheStore[PageClass]
               /\ \E c \in CallIds :
                     /\ calls[c].op = "getPublishView"
                     /\ Finish(c) \/ InvalidatePublishView(c)
       /\ viewLoaded' # viewLoaded
            => /\ publishViewLoaded' = publishViewLoaded
               /\ cacheStore'[PublishClass] = cacheStore[PublishClass]
               /\ \E c \in CallIds :
                     /\ calls[c].op = "getPageDoc"
                     /\ Finish(c) \/ \E e \in FetchErrors : FetchReject(c, e)
       /\ \A cls \in Classes :
            cacheStore'[cls] # cacheStore[cls]
                => \E c \in CallIds :
                      /\ ClassOf(calls[c].op) = cls
                      /\ FetchResolve(c) \/ DeleteViewDone(c)]_vars

\* A key was registered as a published view and as a page; the failure of a later
\* getPublishView removed it from the published-view registry only.
C15_Witness ==
    \E a, b, p \in CallIds :
        /\ calls[a].op = "getPublishView" /\ calls[a].pc = "done" /\ ~calls[a].isLoaded
        /\ calls[b].op = "getPublishView" /\ calls[b].key = calls[a].key
        /\ calls[b].cleanup \in {"deleting", "done", "failed"}
        /\ calls[p].op = "getPageDoc" /\ calls[p].key = calls[a].key
        /\ calls[p].pc = "done"
        /\ calls[a].key \in viewLoaded
        /\ calls[a].key \notin publishViewLoaded

\* C16: a retrieve call invoked for a key that is not registered selects
\* CACHE_AND_NETWORK and issues its own fetch whatever fetches of that key are in
\* flight, and leaves the calls in flight as they are.
C16_NoDeduplication ==
    [][\A op \in RetrieveOps, k \in Keys :
          (Invoke(op, k) /\ k \notin Loaded(ClassOf(op)))
              => /\ calls'[Len(calls')].strategy = CACHE_AND_NETWORK
                 /\ calls'[Len(calls')].pc = "fetching"
                 /\ calls'[Len(calls')].fetches = 1
                 /\ \A c \in CallIds : calls'[c] = calls[c]]_vars

\* Two fetches of one key are in flight for two calls of the same operation.
C16_Witness ==
    \E c, d \in CallIds :
        /\ c # d
        /\ calls[c].op = calls[d].op /\ calls[c].op \in RegistryOps
        /\ calls[c].key = calls[d].key
        /\ calls[c].strategy = CACHE_AND_NETWORK /\ calls[d].strategy = CACHE_AND_NETWORK
        /\ calls[c].pc = "fetching" /\ calls[d].pc = "fetching"
        /\ calls[c].fetches = 1 /\ calls[d].fetches = 1

\* A call on (cls, k) has been rejected and its detached task has not yet resumed
\* from `await hasViewMetaCache(name)`.
RacesCleanup(cls, k) ==
    \E d \in CallIds :
        /\ ClassOf(calls[d].op) = cls /\ calls[d].key = k
        /\ calls[d].pc = "rejected" /\ calls[d].cleanup = "check"

\* C17: the catch block of getPublishView only starts the invalidation: when the
\* closure rejects, and when the rejection reaches the caller, the registry and the
\* stored records are as they were and the detached task is still waiting; a
\* getPublishView invoked in that state for a key that is still registered selects
\* CACHE_FIRST.
C17_RejectionBeforeCleanup ==
    [][/\ \A c \in CallIds :
            /\ (calls[c].op = "getPublishView" /\ calls[c].pc = "fetching"
                                               /\ calls'[c].pc = "failed")
                  => /\ publishViewLoaded' = publishViewLoaded
                     /\ cacheStore' = cacheStore
                     /\ calls'[c].cleanup = "check"
            /\ (calls[c].pc = "failed" /\ calls'[c].pc = "rejected")
                  => /\ publishViewLoaded' = publishViewLoaded
                     /\ viewLoaded' = viewLoaded
                     /\ cacheStore' = cacheStore
                     /\ calls'[c].cleanup = calls[c].cleanup
       /\ \A k \in Keys :
            (RacesCleanup(PublishClass, k) /\ k \in publishViewLoaded /\ getPublishView(k))
                => /\ calls'[Len(calls')].strategy = CACHE_FIRST
                   /\ calls'[Len(calls')].pc = "lookup"
                   /\ calls'[Len(calls')].fetches = 0]_vars

\* The caller of c has the rejection, the key of c is still registered, the stale
\* record is still stored, c's detached task has not resumed, and a retry d of a key
\* registered when it was invoked is waiting to be served from the cache.
C17_Witness ==
    \E c, d \in CallIds :
        /\ calls[c].op = "getPublishView" /\ calls[d].op = "getPublishView"
        /\ calls[c].key = calls[d].key
        /\ c < d
        /\ calls[c].pc = "rejected" /\ calls[c].cleanup = "check"
        /\ calls[c].owed
        /\ calls[c].key \in publishViewLoaded
        /\ HasRecord(PublishClass, calls[c].key)
        /\ calls[d].strategy = CACHE_FIRST
        /\ calls[d].pc = "lookup"

\* A later retrieve of the key of c stored a fresh record while the detached task
\* of c was waiting, has completed, and the key is registered with that record.
Overtaken(c) ==
    /\ calls[c].storedSince # NoRecord
    /\ calls[calls[c].storedSince].pc = "done"
    /\ cacheStore[ClassOf(calls[c].op)][calls[c].key] = calls[c].storedSince
    /\ calls[c].key \in Loaded(ClassOf(calls[c].op))

\* C20: when another retrieve of the key resolved successfully after the fetch of c
\* failed and before the detached task of c resumed, that task does not remove the
\* key from the registry and hands no delete of the record to the cache
\* collaborator.
C20_CleanupKeepsLaterSuccess ==
    [][\A c \in CallIds :
          (InvalidatePublishView(c) /\ Overtaken(c))
              => /\ calls[c].key \in publishViewLoaded'
                 /\ calls'[c].cleanup # "deleting"]_vars

\* ---------------------------------------------------------------- session properties
\* C12: without a user identity getPageDoc rejects with 'User not found' and
\* registerDocUpdate throws it, in the step that invokes them: the call issues no
\* fetch and does not reach the cache collaborator, no sync binding is created, and
\* the registries, the stored records and the other calls stay as they are.
C12_NoIdentityFailsFast ==
    /\ [](userId = NoUser =>
            /\ syncs = <<>>
            /\ viewLoaded = {}
            /\ \A c \in CallIds :
                  calls[c].op = "getPageDoc"
                      => /\ calls[c].pc = "rejected"
                         /\ calls[c].error = "User not found"
                         /\ calls[c].fetches = 0
                         /\ calls[c].strategy \notin {CACHE_FIRST, CACHE_AND_NETWORK}
                         /\ calls[c].cleanup = "none")
    /\ [][userId = NoUser =>
            /\ \A k \in Keys :
                  getPageDoc(k)
                      => /\ calls'[Len(calls')].pc = "rejected"
                         /\ calls'[Len(calls')].error = "User not found"
                         /\ \A c \in CallIds : calls'[c] = calls[c]
                         /\ UNCHANGED <<viewLoaded, publishViewLoaded, cacheStore, syncs>>
            /\ \A d \in Docs :
                  registerDocUpdate(d)
                      => /\ thrown' = "User not found"
                         /\ UNCHANGED <<viewLoaded, publishViewLoaded, cacheStore, syncs,
                                        calls, userCalls>>]_vars

\* Without identity both operations have failed, while a getPublishViewMeta call of
\* the same session has a fetch in flight.
C12_Witness ==
    /\ userId = NoUser
    /\ thrown = "User not found"
    /\ syncs = <<>>
    /\ \E c, d \in CallIds :
          /\ calls[c].op = "getPageDoc" /\ calls[c].error = "User not found"
          /\ calls[c].pc = "rejected" /\ calls[c].fetches = 0
          /\ calls[d].op = "getPublishViewMeta" /\ calls[d].fetches = 1

NotFoundErrors ==
    {"View has not been published yet", "User not found", "Workspace info not found"}

\* C13: when the awaited retrieval resolves without an entity, getPublishViewMeta
\* rejects with 'View has not been published yet', getCurrentUser with 'User not
\* found' and getUserWorkspaceInfo with 'Workspace info not found'; none of these
\* is a fetch error, and the rejection changes no registry and no stored record and
\* starts no invalidation.
C13_NotFoundIsDomainError ==
    /\ [](/\ NotFoundErrors \cap FetchErrors = {}
          /\ \A c \in CallIds :
                (calls[c].op = "getPublishViewMeta" /\ calls[c].pc = "rejected")
                    => /\ calls[c].cleanup = "none"
                       /\ IF calls[c].fetchError = NoError
                          THEN calls[c].error = "View has not been published yet"
                          ELSE calls[c].error = calls[c].fetchError
          /\ \A u \in UserCallIds :
                userCalls[u].pc = "rejected"
                    => IF userCalls[u].present \/ userCalls[u].error \in FetchErrors
                       THEN userCalls[u].error \in FetchErrors
                       ELSE userCalls[u].error = NotFoundError(userCalls[u].op))
    /\ [][/\ \A c \in CallIds :
                (Finish(c) /\ calls[c].op = "getPublishViewMeta"
                           /\ calls[c].result = NoRecord)
                    => /\ calls'[c].pc = "rejected"
                       /\ calls'[c].error = "View has not been published yet"
                       /\ calls'[c].cleanup = "none"
                       /\ UNCHANGED <<viewLoaded, publishViewLoaded, cacheStore>>
          /\ \A u \in UserCallIds :
                (UserFinish(u) /\ ~userCalls[u].present)
                    => /\ userCalls'[u].pc = "rejected"
                       /\ userCalls[u].op = "getCurrentUser"
                              => userCalls'[u].error = "User not found"
                       /\ userCalls[u].op = "getUserWorkspaceInfo"
                              => userCalls'[u].error = "Workspace info not found"
                       /\ UNCHANGED <<viewLoaded, publishViewLoaded, cacheStore, calls>>]_vars

\* Each of the three operations has rejected with its not-found error.
C13_Witness ==
    /\ \E c \in CallIds :
          /\ calls[c].op = "getPublishViewMeta" /\ calls[c].pc = "rejected"
          /\ calls[c].error = "View has not been published yet"
          /\ calls[c].fetches = 1 /\ calls[c].fetchError = NoError
    /\ \E u, w \in UserCallIds :
          /\ userCalls[u].op = "getCurrentUser" /\ userCalls[u].pc = "rejected"
          /\ userCalls[u].error = "User not found"
          /\ userCalls[w].op = "getUserWorkspaceInfo" /\ userCalls[w].pc = "rejected"
          /\ userCalls[w].error = "Workspace info not found"

\* ---------------------------------------------------------------- registry lifecycle
\* C19: both registries are empty when the session starts; a key enters a registry
\* only in the continuation of a getPublishView / getPageDoc call of that class and
\* key whose await resolved, and leaves it only in the failure invalidation of such
\* a call whose fetch was rejected; no step removes a key other than the key of the
\* call that takes it, and getPublishViewMeta changes no registry.
C19_RegistryLifecycle ==
    /\ (viewLoaded = {} /\ publishViewLoaded = {})
    /\ [][/\ \A cls \in Classes, k \in AllKeys :
                /\ (k \notin Loaded(cls) /\ k \in Loaded(cls)')
                      => \E c \in CallIds :
                            /\ calls[c].op \in RegistryOps
                            /\ ClassOf(calls[c].op) = cls /\ calls[c].key = k
                            /\ calls[c].pc = "resolved" /\ calls[c].fetchError = NoError
                            /\ Finish(c)
                /\ (k \in Loaded(cls) /\ k \notin Loaded(cls)')
                      => \E c \in CallIds :
                            /\ calls[c].op \in RegistryOps
                            /\ ClassOf(calls[c].op) = cls /\ calls[c].key = k
                            /\ calls'[c].fetchError # NoError
                            /\ InvalidatePublishView(c)
                                   \/ \E e \in FetchErrors : FetchReject(c, e)
          /\ \A c \in CallIds :
                calls'[c].cleanup # calls[c].cleanup
                    => \A cls \in Classes :
                          Loaded(cls) \ Loaded(cls)' \subseteq {calls[c].key}]_vars

\* Two keys were registered as published views; the failure of a later call on one
\* of them removed that key and left the other.
C19_Witness ==
    \E a, b, c \in CallIds :
        /\ calls[a].op = "getPublishView" /\ calls[a].pc = "done" /\ ~calls[a].isLoaded
        /\ calls[b].op = "getPublishView" /\ calls[b].key = calls[a].key
        /\ calls[b].cleanup \in {"deleting", "done", "failed"}
        /\ calls[c].op = "getPublishView" /\ calls[c].key # calls[a].key
        /\ calls[c].pc = "done" /\ ~calls[c].isLoaded
        /\ calls[a].key \notin publishViewLoaded
        /\ calls[c].key \in publishViewLoaded

\* ---------------------------------------------------------------- getPublishViewMeta
\* Call c is a getPublishViewMeta call that this step invokes or advances.
MetaStep(c) ==
    /\ calls'[c].op = "getPublishViewMeta"
    /\ c \in CallIds => calls'[c] # calls[c]

\* A getPublishView call on key k of an earlier invocation than call c has succeeded.
PublishViewSucceededBefore(c, k) ==
    \E d \in 1..(c - 1) :
        /\ calls[d].op = "getPublishView" /\ calls[d].key = k
        /\ calls[d].pc = "done"

\* A getPublishViewMeta call requested CACHE_FIRST only if a getPublishView call on
\* its key had succeeded before.
MetaStrategyFollowsPublishView ==
    \A c \in CallIds :
        (calls[c].op = "getPublishViewMeta" /\ calls[c].strategy = CACHE_FIRST)
            => PublishViewSucceededBefore(c, calls[c].key)

\* C21 as stated: no step of a getPublishViewMeta call, whatever its outcome,
\* changes a registry or a stored record, and getPublishViewMeta requests
\* CACHE_AND_NETWORK for a key until a getPublishView on that key has succeeded.
C21_MetaLeavesRegistryAndRecords ==
    /\ []MetaStrategyFollowsPublishView
    /\ [][\A c \in 1..Len(calls') :
              MetaStep(c) => UNCHANGED <<viewLoaded, publishViewLoaded, cacheStore>>]_vars

\* C21, amended: no step of a getPublishViewMeta call changes a registry; the
\* stored records change in one step only, the one in which the call's network
\* fetch resolved with a view meta, which replaces the record of the call's key by
\* the fetched one; a not-found rejection and a fetch failure leave the stored
\* records as they were and no step deletes one; getPublishViewMeta requests
\* CACHE_AND_NETWORK for a key until a getPublishView on that key has succeeded.
C21_MetaLeavesRegistry ==
    /\ []MetaStrategyFollowsPublishView
    /\ [][\A c \in 1..Len(calls') :
              MetaStep(c) =>
                  /\ UNCHANGED <<viewLoaded, publishViewLoaded>>
                  /\ \/ UNCHANGED cacheStore
                     \/ /\ c \in CallIds
                        /\ calls[c].pc = "fetching" /\ calls'[c].pc = "resolved"
                        /\ calls'[c].result # NoRecord
                        /\ cacheStore' = [cacheStore EXCEPT
                               ![PublishClass][calls[c].key] = calls'[c].result]]_vars

\* A getPublishViewMeta call under CACHE_AND_NETWORK stored the view meta it
\* fetched while the key was unregistered; a getPublishView on the key then
\* succeeded and registered it, and a later getPublishViewMeta call was served
\* under CACHE_FIRST.
C21_Witness ==
    \E a, b, d \in CallIds :
        /\ a < d /\ d < b
        /\ calls[a].op = "getPublishViewMeta" /\ calls[a].strategy = CACHE_AND_NETWORK
        /\ calls[a].pc = "done" /\ calls[a].result = a
        /\ calls[d].op = "getPublishView" /\ calls[d].key = calls[a].key
        /\ calls[d].pc = "done" /\ ~calls[d].isLoaded
        /\ calls[b].op = "getPublishViewMeta" /\ calls[b].key = calls[a].key
        /\ calls[b].strategy = CACHE_FIRST /\ calls[b].pc = "done"
        /\ calls[a].key \in publishViewLoaded

====
